---------------------------- MODULE Spec2Model ----------------------------
(***************************************************************************)
(* vax-finder (src/src/main.rs): the poll / decode / filter / notify loop. *)
(*                                                                         *)
(* main loads .env, reads the two credentials, builds the mail client and  *)
(* the 60 s interval, and then loops forever: tick, GET the dashboard,     *)
(* read the body, decode it into a Response, and notify every available    *)
(* location by email.  Every fallible step is followed by `?`, so the      *)
(* first error ends main.                                                  *)
(*                                                                         *)
(* Strings of the program are TLA+ strings.  An Option<T> is a sequence of *)
(* length at most one: << >> is None and <<x>> is Some(x).  A message body *)
(* is the sequence of the pieces that format! / push_str concatenate.      *)
(***************************************************************************)
EXTENDS Integers, Sequences, FiniteSets, TLC

VARIABLES
    pc,            \* where main is: "dotenv", "new", "interval", "tick",
                   \* "fetch", "text", "decode", "for", "failed"
    env,           \* the process environment: variable name -> Option<String>
    client,        \* Option<Email>: the value Email::new returned
    cycle,         \* number of interval ticks awaited so far
    httpRes,       \* Result<reqwest::Response>: what reqwest::get returned (line 140)
    text,          \* Result<body>: what res.text() returned (line 141)
    res,           \* Result<Response>: what serde_json::from_str returned (line 141)
    idx,           \* position of the filter_map iterator in res.locations
    sent,          \* the notify invocations of the current cycle, in order
    prevNotified,  \* ids of the locations notified in the previous cycle
    err,           \* the error main returned with, "none" while it runs
    now,           \* the clock (tokio's Instant::now()), in seconds
    interval,      \* Option<Interval>: the timer of line 135, with its next deadline
    created,       \* the instant the timer was created (history, for the properties)
    codec          \* the enum conversion under test: strings in, variants, strings out

vars == <<pc, env, client, cycle, httpRes, text, res, idx, sent, prevNotified, err,
          now, interval, created, codec>>

\* The variables main's steps other than the timer's leave alone.
others == <<now, interval, created, codec>>

(***************************************************************************)
(* Bounds of the model.                                                    *)
(***************************************************************************)
MaxLocs == 2       \* longest `locations` array of a generated payload
MaxPortals == 2    \* longest `portals` array of a generated payload
MaxCycles == 2     \* number of loop iterations explored

None == << >>
Some(x) == <<x>>
IsSome(o) == Len(o) = 1
Unwrap(o) == o[1]

SeqsUpTo(S, n) == UNION {[1..k -> S] : k \in 0..n}

Last(s) == s[Len(s)]

(***************************************************************************)
(* enum Area and enum PortalType, with serde's derived Deserialize: the    *)
(* accepted string of a variant is its tag unless #[serde(rename)] or      *)
(* rename_all changes it, and the match is exact.  A variant is written    *)
(* "Area::Tag"; "DecodeError" is serde's unknown-variant error.            *)
(***************************************************************************)
DecodeError == "DecodeError"

\* Mutant: an unknown string falls back to a default variant.
AreaDeserializeOther(s) ==
    CASE s = "Bronx" -> "Area::Bronx"
      [] s = "Brooklyn" -> "Area::Brooklyn"
      [] s = "Manhattan" -> "Area::Manhattan"
      [] s = "Queens" -> "Area::Queens"
      [] s = "Staten Island" -> "Area::StatenIsland"
      [] s = "Long Island" -> "Area::LongIsland"
      [] s = "Mid-Hudson" -> "Area::MidHudson"
      [] OTHER -> "Area::Bronx"

AreaDeserialize(s) ==
    CASE s = "Bronx" -> "Area::Bronx"
      [] s = "Brooklyn" -> "Area::Brooklyn"
      [] s = "Manhattan" -> "Area::Manhattan"
      [] s = "Queens" -> "Area::Queens"
      [] s = "Staten Island" -> "Area::StatenIsland"
      [] s = "Long Island" -> "Area::LongIsland"
      [] s = "Mid-Hudson" -> "Area::MidHudson"
      [] OTHER -> DecodeError

\* Mutant: the display form is derived from the variant's tag.
AreaDisplayTag(a) ==
    CASE a = "Area::Bronx" -> "Bronx"
      [] a = "Area::Brooklyn" -> "Brooklyn"
      [] a = "Area::Manhattan" -> "Manhattan"
      [] a = "Area::Queens" -> "Queens"
      [] a = "Area::StatenIsland" -> "StatenIsland"
      [] a = "Area::LongIsland" -> "LongIsland"
      [] a = "Area::MidHudson" -> "MidHudson"

AreaDisplay(a) ==
    CASE a = "Area::Bronx" -> "Bronx"
      [] a = "Area::Brooklyn" -> "Brooklyn"
      [] a = "Area::Manhattan" -> "Manhattan"
      [] a = "Area::Queens" -> "Queens"
      [] a = "Area::StatenIsland" -> "Staten Island"
      [] a = "Area::LongIsland" -> "Long Island"
      [] a = "Area::MidHudson" -> "Mid-Hudson"

PortalTypeDeserialize(s) ==
    CASE s = "clinic" -> "PortalType::Clinic"
      [] s = "government" -> "PortalType::Government"
      [] s = "pharmacy" -> "PortalType::Pharmacy"
      [] OTHER -> DecodeError

\* derive(Debug) on PortalType, the only conversion of a PortalType to text
\* (the {:?} of the info! line): the variant's tag.
PortalTypeDebug(v) ==
    CASE v = "PortalType::Clinic" -> "Clinic"
      [] v = "PortalType::Government" -> "Government"
      [] v = "PortalType::Pharmacy" -> "Pharmacy"

(***************************************************************************)
(* The payloads the endpoint may answer with.  A JSON text is a record:    *)
(* wellformed says whether it parses as JSON at all; a JSON string field   *)
(* is a string, a number an integer, and a nullable / omittable field an   *)
(* Option.                                                                 *)
(***************************************************************************)
ValidTimestamps == {"2021-03-20T15:00:00Z"}
Timestamp == "2021-03-20T15:00:00Z"

L1 == [active |-> TRUE, appointments |-> [count |-> 3, summary |-> Some("Walk-ins welcome")],
       area |-> "Brooklyn", available |-> TRUE, id |-> "l1",
       last_available_at |-> Some(Timestamp), name |-> "Clinic A", portal |-> "p1",
       updated_at |-> Some(Timestamp)]

L2 == [active |-> TRUE, appointments |-> [count |-> 0, summary |-> None],
       area |-> "Staten Island", available |-> FALSE, id |-> "l2",
       last_available_at |-> None, name |-> "Pharmacy B", portal |-> "p2",
       updated_at |-> Some(Timestamp)]

L3 == [active |-> FALSE, appointments |-> [count |-> 1, summary |-> None],
       area |-> "Mid-Hudson", available |-> TRUE, id |-> "l3",
       last_available_at |-> None, name |-> "Site C", portal |-> "missing",
       updated_at |-> None]

P1 == [key |-> "p1", name |-> "CityVax", url |-> "https://x", type |-> "clinic"]
P1b == [key |-> "p1", name |-> "StateVax", url |-> "https://y", type |-> "government"]
P2 == [key |-> "p2", name |-> "RxVax", url |-> "https://z", type |-> "pharmacy"]

LocationInputs == {L1, L2, L3}
PortalInputs == {P1, P1b, P2}

\* Locations that violate the schema of struct Location.
BadLocationInputs ==
    { [L1 EXCEPT !.area = a] : a \in {"Atlantis", "brooklyn", "StatenIsland", "Staten island"} }
    \cup { [L2 EXCEPT !.area = "Atlantis"],
           [L1 EXCEPT !.appointments.count = -1],
           [L1 EXCEPT !.updated_at = Some("yesterday")] }

\* Portals that violate the schema of struct Portal.
BadPortalInputs == { [P1 EXCEPT !.type = t] : t \in {"Clinic", "CLINIC", "hospital"} }

Body(ts, ls, ps) ==
    [wellformed |-> TRUE, last_updated_at |-> ts, locations |-> ls, portals |-> ps]

Malformed ==
    [wellformed |-> FALSE, last_updated_at |-> None, locations |-> << >>, portals |-> << >>]

GoodBodies ==
    { Body(Some(Timestamp), ls, ps) :
        ls \in SeqsUpTo(LocationInputs, MaxLocs), ps \in SeqsUpTo(PortalInputs, MaxPortals) }

BadBodies ==
    {Malformed, Body(None, <<L1>>, <<P1>>)}
    \cup { Body(Some(Timestamp), <<b>>, <<P1>>) : b \in BadLocationInputs }
    \cup { Body(Some(Timestamp), <<L1, b>>, <<P1>>) : b \in BadLocationInputs }
    \cup { Body(Some(Timestamp), <<L1>>, <<b>>) : b \in BadPortalInputs }

\* Two longer payloads: an unavailable location between two available ones,
\* and three available ones behind two portals of the same key.
LongBodies ==
    {Body(Some(Timestamp), <<L1, L2, L3>>, <<P2, P1>>),
     Body(Some(Timestamp), <<L3, L1, L1>>, <<P1b, P1>>)}

Bodies == GoodBodies \cup LongBodies \cup BadBodies

\* What a non-success answer carries: an error page, or JSON all the same.
ErrorBodies ==
    {Malformed, Body(Some(Timestamp), << >>, << >>), Body(Some(Timestamp), <<L1>>, <<P1>>),
     Body(Some(Timestamp), <<L2, L3>>, <<P2>>)}

Statuses == {200, 503}
IsSuccess(status) == status \in 200..299

(***************************************************************************)
(* serde_json::from_str::<Response>: every field of every element is       *)
(* decoded, and the first error fails the whole decode.                    *)
(***************************************************************************)
DateTimeOk(o) == IsSome(o) => Unwrap(o) \in ValidTimestamps

LocationOk(l) ==
    /\ l.appointments.count >= 0
    /\ AreaDeserialize(l.area) # DecodeError
    /\ DateTimeOk(l.last_available_at)
    /\ DateTimeOk(l.updated_at)

DecodeLocation(l) == [l EXCEPT !.area = AreaDeserialize(l.area)]

PortalOk(p) == PortalTypeDeserialize(p.type) # DecodeError

DecodePortal(p) ==
    [key |-> p.key, name |-> p.name, url |-> p.url,
     portal_type |-> PortalTypeDeserialize(p.type)]

\* Mutant: a body that does not decode yields an empty Response.
from_strOrDefault(b) ==
    IF /\ b.wellformed
       /\ IsSome(b.last_updated_at) /\ DateTimeOk(b.last_updated_at)
       /\ \A i \in 1..Len(b.locations) : LocationOk(b.locations[i])
       /\ \A i \in 1..Len(b.portals) : PortalOk(b.portals[i])
    THEN Some([last_updated_at |-> Unwrap(b.last_updated_at),
               locations |-> [i \in 1..Len(b.locations) |-> DecodeLocation(b.locations[i])],
               portals |-> [i \in 1..Len(b.portals) |-> DecodePortal(b.portals[i])]])
    ELSE Some([last_updated_at |-> Timestamp, locations |-> << >>, portals |-> << >>])

from_str(b) ==
    IF /\ b.wellformed
       /\ IsSome(b.last_updated_at) /\ DateTimeOk(b.last_updated_at)
       /\ \A i \in 1..Len(b.locations) : LocationOk(b.locations[i])
       /\ \A i \in 1..Len(b.portals) : PortalOk(b.portals[i])
    THEN Some([last_updated_at |-> Unwrap(b.last_updated_at),
               locations |-> [i \in 1..Len(b.locations) |-> DecodeLocation(b.locations[i])],
               portals |-> [i \in 1..Len(b.portals) |-> DecodePortal(b.portals[i])]])
    ELSE None


(***************************************************************************)
(* A Result<T>: state "ok" with the value, state "err", or "unset" while   *)
(* the variable has not been assigned in this iteration of the loop.       *)
(***************************************************************************)
Unset == [state |-> "unset", val |-> << >>]
Ok(x) == [state |-> "ok", val |-> <<x>>]
Err == [state |-> "err", val |-> << >>]
IsOk(r) == r.state = "ok"
IsErr(r) == r.state = "err"
Value(r) == r.val[1]

(***************************************************************************)
(* Startup: dotenv()?, the two env::var(..)?, Email::new(..)?, interval.   *)
(***************************************************************************)
EnvInputs ==
    { [LETTRE_EMAIL |-> e, LETTRE_PASSWORD |-> p] :
        e \in {None, Some("me@gmail.com")}, p \in {None, Some("app-password")} }

\* The .env file dotenv() finds: None when there is none, else its assignments.
DotenvFiles == {None} \cup { Some(f) : f \in EnvInputs }

\* dotenv sets a variable of the file only when the environment lacks it.
LoadEnv(e, f) ==
    [LETTRE_EMAIL |-> IF IsSome(e.LETTRE_EMAIL) THEN e.LETTRE_EMAIL ELSE f.LETTRE_EMAIL,
     LETTRE_PASSWORD |-> IF IsSome(e.LETTRE_PASSWORD) THEN e.LETTRE_PASSWORD
                         ELSE f.LETTRE_PASSWORD]

\* No enum conversion is under test while main runs.
NoCodec ==
    [area |-> "", type |-> "", areaVariant |-> None, typeVariant |-> None,
     areaString |-> None, typeString |-> None]

\* The `?` operator on an Err: main returns the error.
Raise(e) == pc' = "failed" /\ err' = e

Init ==
    /\ pc = "dotenv"
    /\ env \in EnvInputs
    /\ client = None
    /\ cycle = 0
    /\ httpRes = Unset
    /\ text = Unset
    /\ res = Unset
    /\ idx = 0
    /\ sent = << >>
    /\ prevNotified = << >>
    /\ err = "none"
    /\ now = 0
    /\ interval = None
    /\ created = 0
    /\ codec = NoCodec

\* Mutant: a failure of dotenv() is noted and startup goes on.
DotenvWarn(file) ==
    /\ pc = "dotenv"
    /\ pc' = "new"
    /\ IF file = None
       THEN err' = "dotenv::Error" /\ UNCHANGED env
       ELSE env' = LoadEnv(env, Unwrap(file)) /\ UNCHANGED err
    /\ UNCHANGED <<client, cycle, httpRes, text, res, idx, sent, prevNotified>>
    /\ UNCHANGED others

\* Line 131: dotenv()? fails when no .env file is found.
Dotenv(file) ==
    /\ pc = "dotenv"
    /\ IF file = None
       THEN Raise("dotenv::Error") /\ UNCHANGED env
       ELSE pc' = "new" /\ env' = LoadEnv(env, Unwrap(file)) /\ UNCHANGED err
    /\ UNCHANGED <<client, cycle, httpRes, text, res, idx, sent, prevNotified>>
    /\ UNCHANGED others

\* Mutant: a variable that is not set reads as the empty string.
varOrDefault(e, name) == IF IsSome(e[name]) THEN e[name] ELSE Some("")

\* std::env::var: Err(VarError) when the variable is not set.
var(e, name) == e[name]

\* Email::new: SmtpClient::new_simple may fail (TLS setup, address resolution).
EmailNew(emailAddr, password, smtpOk) ==
    IF smtpOk THEN Ok([email |-> emailAddr]) ELSE Err

\* Line 134: both variables are read, in order, before Email::new is called.
NewClient(smtpOk) ==
    /\ pc = "new"
    /\ LET e == var(env, "LETTRE_EMAIL")
           p == var(env, "LETTRE_PASSWORD")
       IN  IF ~IsSome(e) \/ ~IsSome(p)
           THEN Raise("env::VarError") /\ UNCHANGED client
           ELSE LET c == EmailNew(Unwrap(e), Unwrap(p), smtpOk)
                IN  IF IsErr(c)
                    THEN Raise("lettre::smtp::error::Error") /\ UNCHANGED client
                    ELSE pc' = "interval" /\ client' = Some(Value(c)) /\ UNCHANGED err
    /\ UNCHANGED <<env, cycle, httpRes, text, res, idx, sent, prevNotified>>
    /\ UNCHANGED others

(***************************************************************************)
(* tokio::time::interval(period): the first tick completes at once, and    *)
(* every later tick is due one period after the deadline of the tick       *)
(* before it, however late that tick was taken (missed ticks burst).       *)
(***************************************************************************)
Period == 60

Max(a, b) == IF a >= b THEN a ELSE b

\* Mutant: the first tick is due one period after the timer is created.
FirstDeadlineAfterPeriod(n) == n + Period

\* interval(period) is interval_at(Instant::now(), period).
FirstDeadline(n) == n

\* Mutant: the next tick is due one period after the tick was taken.
NextDeadlineFromNow(timer, n) == n + timer.period

\* Interval::tick re-arms the timer at its deadline plus the period.
NextDeadline(timer, n) == timer.deadline + timer.period

Interval ==
    /\ pc = "interval"
    /\ pc' = "tick"
    /\ interval' = Some([deadline |-> FirstDeadline(now), period |-> Period])
    /\ created' = now
    /\ UNCHANGED <<env, client, cycle, httpRes, text, res, idx, sent, prevNotified, err>>
    /\ UNCHANGED <<now, codec>>

(***************************************************************************)
(* The loop.  Tick starts an iteration: the previous iteration's `res` is  *)
(* gone, and the log of notify invocations starts afresh.                  *)
(***************************************************************************)
Ids(log) == [i \in 1..Len(log) |-> log[i].location.id]

\* interval.tick().await: main sleeps until the deadline unless it has passed.
Tick ==
    /\ pc = "tick"
    /\ cycle < MaxCycles
    /\ pc' = "fetch"
    /\ cycle' = cycle + 1
    /\ LET timer == Unwrap(interval)
           fired == Max(now, timer.deadline)
       IN  /\ now' = fired
           /\ interval' = Some([timer EXCEPT !.deadline = NextDeadline(timer, fired)])
    /\ httpRes' = Unset
    /\ text' = Unset
    /\ res' = Unset
    /\ idx' = 0
    /\ prevNotified' = Ids(sent)
    /\ sent' = << >>
    /\ UNCHANGED <<env, client, err, created, codec>>

\* Mutant: a failed GET is issued again.
AfterGetRetry(r) ==
    IF IsErr(r) THEN pc' = "fetch" /\ UNCHANGED err ELSE pc' = "text" /\ UNCHANGED err

\* What follows reqwest::get(..).await: `?` on its Result.
AfterGet(r) ==
    IF IsErr(r) THEN Raise("reqwest::Error") ELSE pc' = "text" /\ UNCHANGED err

\* reqwest::get: Err on a transport error, else Ok(response) whatever the status.
Get ==
    /\ pc = "fetch"
    /\ \E r \in {Err} \cup { Ok([status |-> s]) : s \in Statuses } :
         /\ httpRes' = r
         /\ AfterGet(r)
    /\ UNCHANGED <<env, client, cycle, text, res, idx, sent, prevNotified>>
    /\ UNCHANGED others

\* The bodies a response of this status may carry.
BodiesOf(status) == IF IsSuccess(status) THEN Bodies ELSE ErrorBodies

AfterText(r) ==
    IF IsErr(r) THEN Raise("reqwest::Error") ELSE pc' = "decode" /\ UNCHANGED err

\* res.text().await, the body being one of `bodies`: Err when reading it fails.
TextFrom(bodies) ==
    /\ pc = "text"
    /\ \E r \in {Err} \cup { Ok(b) : b \in BodiesOf(Value(httpRes).status) \cap bodies } :
         /\ text' = r
         /\ AfterText(r)
    /\ UNCHANGED <<env, client, cycle, httpRes, res, idx, sent, prevNotified>>
    /\ UNCHANGED others

Text == TextFrom(Bodies)

AfterDecode(r) ==
    IF IsErr(r) THEN Raise("serde_json::Error") /\ UNCHANGED idx
    ELSE pc' = "for" /\ idx' = 1 /\ UNCHANGED err

Decode ==
    /\ pc = "decode"
    /\ LET d == from_str(Value(text))
           r == IF IsSome(d) THEN Ok(Unwrap(d)) ELSE Err
       IN  /\ res' = r
           /\ AfterDecode(r)
    /\ UNCHANGED <<env, client, cycle, httpRes, text, sent, prevNotified>>
    /\ UNCHANGED others


(***************************************************************************)
(* The filter, the portal lookup and Email::notify.                        *)
(***************************************************************************)
Min(S) == CHOOSE x \in S : \A y \in S : x <= y

\* Mutants of the closure: filtering on `active`, and remembering the
\* locations notified in the previous cycle.
IsSelectedActive(location) == location.active

\* Mutant: an inactive location is not notified.
IsSelectedAvailableActive(location) == location.available /\ location.active

IsSelectedOnce(location) ==
    location.available /\ \A i \in 1..Len(prevNotified) : prevNotified[i] # location.id

\* The closure of filter_map: Some(location) exactly when location.available.
IsSelected(location) == location.available

\* Iterator::next of the filter_map from position `from`: the index of the
\* next selected location, 0 when the iterator is exhausted.
NextSelected(locations, from) ==
    LET rest == { j \in from..Len(locations) : IsSelected(locations[j]) }
    IN  IF rest = {} THEN 0 ELSE Min(rest)

\* Mutant: the first portal, whatever its key.
findFirst(portals, key) == IF portals = << >> THEN None ELSE Some(portals[1])

\* Mutant: the last portal with the key.
findLast(portals, key) ==
    LET hits == { j \in 1..Len(portals) : portals[j].key = key }
    IN  IF hits = {} THEN None
        ELSE Some(portals[CHOOSE j \in hits : \A k \in hits : k <= j])

\* res.portals.iter().find(|portal| portal.key == location.portal)
find(portals, key) ==
    LET hits == { j \in 1..Len(portals) : portals[j].key = key }
    IN  IF hits = {} THEN None ELSE Some(portals[Min(hits)])

Fallback == "Visit turbovax.info for more information"

\* Mutant: the summary is left out of the body.
ComposeBodyNoSummary(location, portal) ==
    <<"Found ", ToString(location.appointments.count),
      " vaccine appoitnemnt(s)! The location is ", location.name, " in ",
      AreaDisplay(location.area), ".\n">>
    \o (IF IsSome(portal)
        THEN <<"Appointments can be booked through the ", Unwrap(portal).name,
               " portal, at ", Unwrap(portal).url>>
        ELSE <<Fallback>>)

\* Lines 102-117: the pieces of `body`, in the order they are pushed.
ComposeBody(location, portal) ==
    <<"Found ", ToString(location.appointments.count),
      " vaccine appoitnemnt(s)! The location is ", location.name, " in ",
      AreaDisplay(location.area), ".\n">>
    \o (IF IsSome(location.appointments.summary)
        THEN <<Unwrap(location.appointments.summary), "\n">>
        ELSE << >>)
    \o (IF IsSome(portal)
        THEN <<"Appointments can be booked through the ", Unwrap(portal).name,
               " portal, at ", Unwrap(portal).url>>
        ELSE <<Fallback>>)

\* Mutant: the message goes to another recipient.
BuildEmailElsewhere(self, body) ==
    [from |-> self.email, to |-> "alerts@example.com", subject |-> "Vaccine slot found!",
     body |-> body]

\* Lines 118-124: the message EmailBuilder builds.
BuildEmail(self, body) ==
    [from |-> self.email, to |-> self.email, subject |-> "Vaccine slot found!",
     body |-> body]

\* Mutant: the send error is logged and the loop goes on.
AfterNotifyContinue(r, j) == pc' = "for" /\ idx' = j + 1 /\ UNCHANGED err

\* Mutant: the next fetch starts as soon as one notification is out.
AfterNotifyRefetch(r, j) ==
    IF IsErr(r) THEN Raise("lettre::smtp::error::Error") /\ UNCHANGED idx
    ELSE pc' = "fetch" /\ idx' = j + 1 /\ UNCHANGED err

\* What follows client.notify(..): `?` on its Result, else the next iteration.
AfterNotify(r, j) ==
    IF IsErr(r) THEN Raise("lettre::smtp::error::Error") /\ UNCHANGED idx
    ELSE pc' = "for" /\ idx' = j + 1 /\ UNCHANGED err

\* Mutant: main returns Ok(()) after the for loop.
LoopBackReturn == pc' = "returned"

\* The end of the body of `loop`: back to interval.tick().
LoopBack == pc' = "tick"

\* One iteration of the for loop of lines 149-159.  sendOk is the outcome of
\* mailer.send: the transport accepts the message or fails.
ForNext(sendOk) ==
    /\ pc = "for"
    /\ LET locations == Value(res).locations
           j == NextSelected(locations, idx)
       IN  IF j = 0
           THEN /\ sendOk
                /\ LoopBack
                /\ UNCHANGED <<idx, sent, err>>
           ELSE LET location == locations[j]
                    portal == find(Value(res).portals, location.portal)
                    email == BuildEmail(Unwrap(client), ComposeBody(location, portal))
                    r == IF sendOk THEN Ok("sent") ELSE Err
                IN  /\ sent' = Append(sent, [location |-> location, portal |-> portal,
                                             email |-> email, result |-> r.state])
                    /\ AfterNotify(r, j)
    /\ UNCHANGED <<env, client, cycle, httpRes, text, res, prevNotified>>
    /\ UNCHANGED others

Next ==
    \/ \E file \in DotenvFiles : Dotenv(file)
    \/ \E smtpOk \in BOOLEAN : NewClient(smtpOk)
    \/ Interval
    \/ Tick
    \/ Get
    \/ Text
    \/ Decode
    \/ \E sendOk \in BOOLEAN : ForNext(sendOk)

Spec == Init /\ [][Next]_vars

(***************************************************************************)
(* The same program with time passing while main waits for the network,    *)
(* over a few payloads.                                                    *)
(***************************************************************************)
TimedBodies ==
    {Malformed, Body(Some(Timestamp), << >>, << >>), Body(Some(Timestamp), <<L1>>, <<P1>>),
     Body(Some(Timestamp), <<L2, L3>>, <<P2>>)}

\* How long a wait may last: half a period, or two and a half.
Delays == {Period \div 2, 2 * Period + Period \div 2}

\* The clock is followed up to here.
Horizon == (MaxCycles + 1) * Period

\* Time passes while main sets up the SMTP client or awaits the GET, the
\* body or the send.
Advance(d) ==
    /\ pc \in {"new", "fetch", "text", "for"}
    /\ now + d <= Horizon
    /\ now' = now + d
    /\ UNCHANGED <<pc, env, client, cycle, httpRes, text, res, idx, sent, prevNotified, err,
                   interval, created, codec>>

TimedNext ==
    \/ \E file \in DotenvFiles : Dotenv(file)
    \/ \E smtpOk \in BOOLEAN : NewClient(smtpOk)
    \/ Interval
    \/ Tick
    \/ Get
    \/ TextFrom(TimedBodies)
    \/ Decode
    \/ \E sendOk \in BOOLEAN : ForNext(sendOk)
    \/ \E d \in Delays : Advance(d)

TimedSpec == Init /\ [][TimedNext]_vars

(***************************************************************************)
(* The same program running on: once MaxCycles ticks are counted, further  *)
(* ticks leave the counter and the timer where they are.  Every step main  *)
(* can take is eventually taken: the timer fires and the I/O calls return. *)
(***************************************************************************)
TickCapped ==
    /\ pc = "tick"
    /\ cycle = MaxCycles
    /\ pc' = "fetch"
    /\ now' = Max(now, Unwrap(interval).deadline)
    /\ httpRes' = Unset
    /\ text' = Unset
    /\ res' = Unset
    /\ idx' = 0
    /\ prevNotified' = Ids(sent)
    /\ sent' = << >>
    /\ UNCHANGED <<env, client, err, cycle, interval, created, codec>>

LiveNext ==
    \/ \E file \in DotenvFiles : Dotenv(file)
    \/ \E smtpOk \in BOOLEAN : NewClient(smtpOk)
    \/ Interval
    \/ Tick
    \/ TickCapped
    \/ Get
    \/ TextFrom(TimedBodies)
    \/ Decode
    \/ \E sendOk \in BOOLEAN : ForNext(sendOk)

LiveSpec == Init /\ [][LiveNext]_vars /\ WF_vars(LiveNext)


(***************************************************************************)
(* The enum conversions on their own: a string for an area and a string    *)
(* for a portal type are deserialized, and the variants converted back to  *)
(* text, the Area by Display and the PortalType by Debug.                  *)
(***************************************************************************)
AreaStringInputs ==
    {"Bronx", "Brooklyn", "Manhattan", "Queens", "Staten Island", "Long Island", "Mid-Hudson",
     "StatenIsland", "LongIsland", "MidHudson", "brooklyn", "Atlantis"}

PortalTypeStringInputs ==
    {"clinic", "government", "pharmacy", "Clinic", "Government", "Pharmacy", "hospital"}

CodecInit ==
    /\ pc = "codec"
    /\ env = [LETTRE_EMAIL |-> None, LETTRE_PASSWORD |-> None]
    /\ client = None
    /\ cycle = 0
    /\ httpRes = Unset
    /\ text = Unset
    /\ res = Unset
    /\ idx = 0
    /\ sent = << >>
    /\ prevNotified = << >>
    /\ err = "none"
    /\ now = 0
    /\ interval = None
    /\ created = 0
    /\ codec \in { [NoCodec EXCEPT !.area = a, !.type = t] :
                     a \in AreaStringInputs, t \in PortalTypeStringInputs }

main == <<pc, env, client, cycle, httpRes, text, res, idx, sent, prevNotified, err,
          now, interval, created>>

DeserializeArea ==
    /\ pc = "codec"
    /\ codec.areaVariant = None
    /\ codec' = [codec EXCEPT !.areaVariant = Some(AreaDeserialize(codec.area))]
    /\ UNCHANGED main

DisplayArea ==
    /\ pc = "codec"
    /\ IsSome(codec.areaVariant) /\ Unwrap(codec.areaVariant) # DecodeError
    /\ codec.areaString = None
    /\ codec' = [codec EXCEPT !.areaString = Some(AreaDisplay(Unwrap(codec.areaVariant)))]
    /\ UNCHANGED main

DeserializePortalType ==
    /\ pc = "codec"
    /\ codec.typeVariant = None
    /\ codec' = [codec EXCEPT !.typeVariant = Some(PortalTypeDeserialize(codec.type))]
    /\ UNCHANGED main

DebugPortalType ==
    /\ pc = "codec"
    /\ IsSome(codec.typeVariant) /\ Unwrap(codec.typeVariant) # DecodeError
    /\ codec.typeString = None
    /\ codec' = [codec EXCEPT !.typeString = Some(PortalTypeDebug(Unwrap(codec.typeVariant)))]
    /\ UNCHANGED main

CodecNext == DeserializeArea \/ DisplayArea \/ DeserializePortalType \/ DebugPortalType

CodecSpec == CodecInit /\ [][CodecNext]_vars

(***************************************************************************)
(* Properties.                                                             *)
(***************************************************************************)
CycleDone == pc = "tick" /\ cycle > 0
Locations(log) == [i \in 1..Len(log) |-> log[i].location]
Available(location) == location.available
AllOk(log) == \A i \in 1..Len(log) : log[i].result = "ok"

\* C1: when a cycle completes (fetch, decode and every send succeeded), the
\* locations notified in it are exactly the available locations of the
\* snapshot, in the snapshot's order, each once.
C1_SendsAreAvailableInOrder ==
    CycleDone =>
        /\ IsOk(res)
        /\ AllOk(sent)
        /\ Locations(sent) = SelectSeq(Value(res).locations, Available)

\* A completed cycle over [available, unavailable, available]: two sends.
C1_Witness ==
    /\ CycleDone
    /\ Len(Value(res).locations) = 3
    /\ ~Value(res).locations[2].available
    /\ Ids(sent) = <<"l1", "l3">>

\* C2: after a fetch that returned a non-success status the process has
\* terminated: no body was read or decoded and nothing was sent.
C2_NonSuccessIsFatal ==
    (IsOk(httpRes) /\ ~IsSuccess(Value(httpRes).status)) =>
        /\ pc = "failed"
        /\ text = Unset
        /\ res = Unset
        /\ sent = << >>

\* The state the code reaches instead: an email sent from a 503 answer.
C2_NotifiedFromNonSuccess ==
    /\ IsOk(httpRes) /\ ~IsSuccess(Value(httpRes).status)
    /\ sent # << >> /\ AllOk(sent)

SendFailed == \E i \in 1..Len(sent) : sent[i].result = "err"

\* The notify invocations of the cycle are the available locations of the
\* snapshot up to and including position n, in order.
NotifiedUpTo(n) ==
    Locations(sent) = SelectSeq(SubSeq(Value(res).locations, 1, n), Available)

SendFailureState ==
    SendFailed =>
        /\ pc = "failed"
        /\ err = "lettre::smtp::error::Error"
        /\ Last(sent).result = "err"
        /\ AllOk(SubSeq(sent, 1, Len(sent) - 1))
        /\ \E n \in 1..Len(Value(res).locations) :
             /\ Value(res).locations[n] = Last(sent).location
             /\ NotifiedUpTo(n)

\* C3: a failed send ends main at once: it is the last notify invocation of
\* the process, the sends before it are the earlier available locations (all
\* made), and no step of any kind follows the termination.
C3_SendFailureAborts ==
    [][pc # "failed" /\ SendFailureState' /\ (SendFailed' => UNCHANGED <<cycle, httpRes>>)]_vars

\* The second of three available locations fails after the first was sent.
C3_Witness ==
    /\ pc = "failed"
    /\ Len(sent) = 2 /\ sent[1].result = "ok" /\ sent[2].result = "err"
    /\ Len(Value(res).locations) = 3 /\ Value(res).locations[3].available


\* The body main read does not decode: it is one of the payloads built to be
\* malformed or to violate the schema, and the decode step has run on it.
UndecodableBodyRead == IsOk(text) /\ Value(text) \in BadBodies /\ pc # "decode"

DecodeFailureState ==
    UndecodableBodyRead =>
        /\ pc = "failed"
        /\ err = "serde_json::Error"
        /\ IsErr(res)
        /\ sent = << >>

\* C4: a body that is malformed or violates the schema ends main in the
\* decode step: nothing is sent from it, and no step follows the termination
\* (so no later cycle runs).
C4_DecodeFailureIsFatal ==
    [][pc # "failed" /\ DecodeFailureState' /\ (UndecodableBodyRead' => cycle' = cycle)]_vars

\* A payload whose first location is valid and available and whose second
\* has a negative count: decoding failed and nothing was sent.
C4_Witness ==
    /\ pc = "failed" /\ IsErr(res) /\ IsOk(text) /\ sent = << >>
    /\ Len(Value(text).locations) = 2
    /\ Value(text).locations[1] = L1
    /\ Value(text).locations[2].appointments.count < 0

TransportErrorState ==
    (IsErr(httpRes) \/ IsErr(text)) =>
        /\ pc = "failed"
        /\ err = "reqwest::Error"
        /\ IsErr(httpRes) => text = Unset
        /\ res = Unset
        /\ sent = << >>

\* C5: a transport error of the GET or of the body read ends main at once:
\* there is no decode and no send in that cycle, and no step follows the
\* termination (no retry, no further fetch).
C5_TransportErrorIsFatal ==
    [][pc # "failed" /\ TransportErrorState'
       /\ ((IsErr(httpRes') \/ IsErr(text')) => cycle' = cycle)]_vars

\* The GET of the second cycle failed after a first cycle that notified.
C5_Witness ==
    /\ pc = "failed" /\ IsErr(httpRes) /\ cycle = 2 /\ prevNotified # << >>

\* The body read failed after a successful GET.
C5_WitnessBody == pc = "failed" /\ IsOk(httpRes) /\ IsErr(text)

LocationIds(locations) == [i \in 1..Len(locations) |-> locations[i].id]

Count(ids, id) == Cardinality({ i \in 1..Len(ids) : ids[i] = id })

\* C6: a location notified in the previous cycle and available again in this
\* cycle's snapshot is notified again, once per occurrence in the snapshot.
C6_NoMemoryAcrossCycles ==
    (CycleDone /\ cycle >= 2) =>
        \A i \in 1..Len(prevNotified) :
            Count(Ids(sent), prevNotified[i])
                = Count(LocationIds(SelectSeq(Value(res).locations, Available)),
                        prevNotified[i])

\* l1 was notified in the first cycle and is notified again in the second.
C6_Witness ==
    /\ CycleDone /\ cycle = 2
    /\ Count(prevNotified, "l1") = 1
    /\ Count(Ids(sent), "l1") = 1

Contains(body, piece) == \E i \in 1..Len(body) : body[i] = piece

PortalPieces == UNION { {p.name, p.url} : p \in PortalInputs }

\* C7: the portal passed to notify is a portal of the snapshot whose key is
\* location.portal when the snapshot has one, and None exactly when it has
\* none; with None the body ends in the fallback text and names no portal.
C7_PortalResolution ==
    \A i \in 1..Len(sent) :
        LET m == sent[i]
            portals == Value(res).portals
            hits == { j \in 1..Len(portals) : portals[j].key = m.location.portal }
        IN  /\ IsSome(m.portal) <=> hits # {}
            /\ IsSome(m.portal) =>
                 /\ Unwrap(m.portal).key = m.location.portal
                 /\ \E j \in hits : portals[j] = Unwrap(m.portal)
            /\ ~IsSome(m.portal) =>
                 /\ Contains(m.email.body, Fallback)
                 /\ \A piece \in PortalPieces : ~Contains(m.email.body, piece)

\* l1 resolved to the p1 portal behind a portal of another key, and l3, whose
\* key no portal has, resolved to None.
C7_Witness ==
    /\ Len(sent) = 2
    /\ Len(Value(res).portals) = 2
    /\ Value(res).portals[1].key = "p2"
    /\ IsSome(sent[1].portal) /\ Unwrap(sent[1].portal).key = "p1"
    /\ sent[2].location.portal = "missing" /\ sent[2].portal = None


SummaryTexts ==
    { Unwrap(l.appointments.summary) : l \in { x \in LocationInputs : IsSome(x.appointments.summary) } }

\* C8: the body of every notify invocation contains the count, the name and
\* the area's display name of its location; it contains the summary exactly
\* when the location has one; and it ends either in the portal's name and URL
\* (a portal was passed) or in the fallback text (none was), never in both.
C8_BodyComposition ==
    \A i \in 1..Len(sent) :
        LET m == sent[i]
            body == m.email.body
            summary == m.location.appointments.summary
        IN  /\ Contains(body, ToString(m.location.appointments.count))
            /\ Contains(body, m.location.name)
            /\ Contains(body, AreaDisplay(m.location.area))
            /\ IsSome(summary) => Contains(body, Unwrap(summary))
            /\ ~IsSome(summary) => \A piece \in SummaryTexts : ~Contains(body, piece)
            /\ IsSome(m.portal) =>
                 /\ Contains(body, Unwrap(m.portal).name)
                 /\ Contains(body, Unwrap(m.portal).url)
                 /\ ~Contains(body, Fallback)
            /\ ~IsSome(m.portal) =>
                 /\ Contains(body, Fallback)
                 /\ \A piece \in PortalPieces : ~Contains(body, piece)

\* One cycle notified l1 (summary, portal found) and l3 (no summary, no portal).
C8_Witness ==
    /\ Len(sent) = 2
    /\ IsSome(sent[1].location.appointments.summary) /\ IsSome(sent[1].portal)
    /\ ~IsSome(sent[2].location.appointments.summary) /\ ~IsSome(sent[2].portal)

CredentialAbsent == ~IsSome(env.LETTRE_EMAIL) \/ ~IsSome(env.LETTRE_PASSWORD)

\* C9: while the email address or the password is absent from the
\* environment, main never gets past reading them: no client is built, no
\* tick is awaited, no GET is issued and nothing is sent.
C9_MissingCredentialFailsStartup ==
    CredentialAbsent =>
        /\ pc \in {"dotenv", "new", "failed"}
        /\ client = None
        /\ cycle = 0
        /\ httpRes = Unset
        /\ sent = << >>

\* .env was loaded, the address is set and the password is not: main failed
\* on the second env::var.
C9_Witness ==
    /\ pc = "failed" /\ err = "env::VarError"
    /\ IsSome(env.LETTRE_EMAIL) /\ ~IsSome(env.LETTRE_PASSWORD)

AcceptedAreas ==
    {"Bronx", "Brooklyn", "Manhattan", "Queens", "Staten Island", "Long Island", "Mid-Hudson"}

AcceptedPortalTypes == {"clinic", "government", "pharmacy"}

HasUnknownEnum(b) ==
    \/ \E i \in 1..Len(b.locations) : b.locations[i].area \notin AcceptedAreas
    \/ \E i \in 1..Len(b.portals) : b.portals[i].type \notin AcceptedPortalTypes

\* C10: once the decode step has run on a body with an area or a portal type
\* outside the accepted strings, the decode has failed: there is no Response,
\* main has terminated, and nothing was sent.
C10_UnknownEnumFailsDecode ==
    (IsOk(text) /\ HasUnknownEnum(Value(text)) /\ pc # "decode") =>
        /\ IsErr(res)
        /\ pc = "failed"
        /\ err = "serde_json::Error"
        /\ sent = << >>

\* The area "brooklyn" (wrong case) behind a valid available location.
C10_Witness ==
    /\ pc = "failed" /\ IsErr(res) /\ IsOk(text)
    /\ Len(Value(text).locations) = 2
    /\ Value(text).locations[1].available
    /\ Value(text).locations[2].area = "brooklyn"

\* The portal type "Clinic" (the variant's tag, not its lowercase string).
C10_WitnessPortalType ==
    /\ pc = "failed" /\ IsErr(res) /\ IsOk(text)
    /\ Len(Value(text).portals) = 1
    /\ Value(text).portals[1].type = "Clinic"


\* The canonical display string of every variant.
CanonicalString ==
    [v \in {"Area::Bronx", "Area::Brooklyn", "Area::Manhattan", "Area::Queens",
            "Area::StatenIsland", "Area::LongIsland", "Area::MidHudson",
            "PortalType::Clinic", "PortalType::Government", "PortalType::Pharmacy"} |->
        CASE v = "Area::Bronx" -> "Bronx"
          [] v = "Area::Brooklyn" -> "Brooklyn"
          [] v = "Area::Manhattan" -> "Manhattan"
          [] v = "Area::Queens" -> "Queens"
          [] v = "Area::StatenIsland" -> "Staten Island"
          [] v = "Area::LongIsland" -> "Long Island"
          [] v = "Area::MidHudson" -> "Mid-Hudson"
          [] v = "PortalType::Clinic" -> "clinic"
          [] v = "PortalType::Government" -> "government"
          [] v = "PortalType::Pharmacy" -> "pharmacy"]

AreaVariants ==
    {"Area::Bronx", "Area::Brooklyn", "Area::Manhattan", "Area::Queens",
     "Area::StatenIsland", "Area::LongIsland", "Area::MidHudson"}

PortalTypeVariants == {"PortalType::Clinic", "PortalType::Government", "PortalType::Pharmacy"}

\* The string `str` was deserialized to `variant`, as the table says: to the
\* variant it is the canonical string of, and to an error when it is none's.
DecodesByTable(str, variant, variants) ==
    IsSome(variant) =>
        IF \E v \in variants : CanonicalString[v] = str
        THEN Unwrap(variant) \in variants /\ CanonicalString[Unwrap(variant)] = str
        ELSE Unwrap(variant) = DecodeError

WithoutActive(location) == [f \in DOMAIN location \ {"active"} |-> location[f]]

\* C12: the notify invocations of a completed cycle are a function of the
\* snapshot with every `active` flag removed (so two snapshots that differ
\* only in those flags give the same sends), and every available location
\* that is not active is among them.
C12_ActiveHasNoInfluence ==
    CycleDone =>
        LET locations == Value(res).locations
            portals == Value(res).portals
            blind == [i \in 1..Len(locations) |-> WithoutActive(locations[i])]
            expected == SelectSeq(blind, Available)
        IN  /\ Len(sent) = Len(expected)
            /\ \A i \in 1..Len(sent) :
                 LET portal == find(portals, expected[i].portal)
                 IN  /\ WithoutActive(sent[i].location) = expected[i]
                     /\ sent[i].portal = portal
                     /\ sent[i].email
                          = BuildEmail(Unwrap(client), ComposeBody(expected[i], portal))
            /\ \A j \in 1..Len(locations) :
                 (locations[j].available /\ ~locations[j].active) =>
                     \E i \in 1..Len(sent) : sent[i].location = locations[j]

\* A cycle notified an active location and an inactive one.
C12_Witness ==
    /\ CycleDone
    /\ \E i \in 1..Len(sent) : sent[i].location.active
    /\ \E i \in 1..Len(sent) : ~sent[i].location.active

\* C13: every email of every notify invocation has the fixed subject, goes
\* from the configured address to the same address, and is about the one
\* location of the invocation: its body is that location's and names no
\* other location.
C13_Envelope ==
    \A i \in 1..Len(sent) :
        LET email == sent[i].email
        IN  /\ email.subject = "Vaccine slot found!"
            /\ email.from = Unwrap(env.LETTRE_EMAIL)
            /\ email.to = Unwrap(env.LETTRE_EMAIL)
            /\ Contains(email.body, sent[i].location.name)
            /\ \A l \in LocationInputs :
                 l.name # sent[i].location.name => ~Contains(email.body, l.name)

\* Two emails in one cycle, one for each of two different locations.
C13_Witness ==
    /\ Len(sent) = 2 /\ AllOk(sent)
    /\ sent[1].location.name # sent[2].location.name
    /\ sent[1].email.body # sent[2].email.body


\* The order of the steps of a cycle; from each of them main may also fail.
CycleOrder ==
    {<<"tick", "fetch">>, <<"fetch", "text">>, <<"text", "decode">>, <<"decode", "for">>,
     <<"for", "for">>, <<"for", "tick">>}
    \cup { <<p, "failed">> : p \in {"fetch", "text", "decode", "for"} }

InCycle == {"tick", "fetch", "text", "decode", "for"}

\* C14: the steps of a cycle follow each other in the order tick, fetch
\* (GET, body), decode, filter and notify; a GET is issued only right after a
\* tick and only once per cycle; a tick that starts a further cycle is taken
\* only when every available location of the previous snapshot has been
\* notified; and a notify belongs to the cycle whose snapshot is current.
C14_OneCycleInFlight ==
    [][/\ pc \in InCycle => <<pc, pc'>> \in CycleOrder
       /\ (httpRes' # httpRes /\ httpRes' # Unset) => (pc = "fetch" /\ httpRes = Unset)
       /\ pc' \in {"text", "decode", "for"} => IsOk(httpRes')
       /\ pc' = "fetch" =>
            /\ pc = "tick" /\ cycle' = cycle + 1
            /\ cycle > 0 =>
                 /\ IsOk(httpRes) /\ IsOk(res) /\ AllOk(sent)
                 /\ Locations(sent) = SelectSeq(Value(res).locations, Available)
       /\ sent' # sent /\ sent' # << >> =>
            (pc = "for" /\ cycle' = cycle /\ res' = res /\ httpRes' = httpRes)]_vars

\* The GET of the second cycle is about to be issued, after both
\* notifications of the first cycle.
C14_Witness == pc = "fetch" /\ cycle = 2 /\ Len(prevNotified) = 2 /\ httpRes = Unset


\* C15: every completed cycle is followed by another fetch, and a run in
\* which nothing fails completes cycles for ever: main never returns.
C15_LoopsForever ==
    /\ [](CycleDone => <>(pc = "fetch"))
    /\ (<>(pc = "failed") \/ []<>CycleDone)

\* The last counted cycle has completed after an earlier one that notified.
C15_Witness == CycleDone /\ cycle = MaxCycles /\ sent # << >> /\ prevNotified # << >>


TickTaken == pc = "tick" /\ pc' = "fetch"

\* C16: the fetch step is entered only by a tick of its own; the tick that
\* starts cycle k+1 is the one scheduled k periods after the timer's start,
\* whatever the time the cycles before it took; it completes at its scheduled
\* time or, when that has passed, at once; and it schedules the next tick
\* one period after its own scheduled time, so no missed tick is skipped or
\* merged with another.
C16_TicksOnSchedule ==
    [][/\ (pc' = "fetch" /\ pc # "fetch") => (pc = "tick" /\ cycle' = cycle + 1)
       /\ (httpRes' # httpRes /\ httpRes' # Unset) => pc = "fetch"
       /\ TickTaken =>
            /\ Unwrap(interval).deadline = created + cycle * Period
            /\ now' = Max(now, Unwrap(interval).deadline)
            /\ Unwrap(interval').deadline = Unwrap(interval).deadline + Period]_vars

\* The first cycle overran two periods: the second tick was taken at once,
\* and the third, already due, is still scheduled.
C16_Witness ==
    /\ pc = "fetch" /\ cycle = 2
    /\ now >= created + 2 * Period
    /\ Unwrap(interval).deadline = created + 2 * Period

\* C19: the first tick completes at the instant the timer was created, with
\* no wait, and the tick that starts the k-th cycle completes no earlier than
\* (k-1) periods after that instant.
C19_FirstTickImmediate ==
    [][TickTaken =>
         /\ now' >= created + cycle * Period
         /\ cycle = 0 => (now' = now /\ now' = created)]_vars

\* The first fetch is about to be issued at the instant the timer was
\* created, some time after the process started.
C19_Witness == pc = "fetch" /\ cycle = 1 /\ now = created /\ created > 0 /\ httpRes = Unset

\* The second fetch is about to be issued exactly one period after that instant.
C19_WitnessSecond == pc = "fetch" /\ cycle = 2 /\ now = created + Period /\ httpRes = Unset


\* The portals of the snapshot in hand that have the key.
PortalsWithKey(key) ==
    LET portals == Value(res).portals
    IN  { j \in 1..Len(portals) : portals[j].key = key }

\* C17: when portals of the snapshot share the key of a notified location,
\* the portal passed to notify is the one that comes first in the snapshot's
\* portal list, and two notifications of the cycle whose locations have the
\* same key carry the same portal.
C17_FirstPortalOfKey ==
    /\ \A i \in 1..Len(sent) :
         LET hits == PortalsWithKey(sent[i].location.portal)
         IN  hits # {} => sent[i].portal = Some(Value(res).portals[Min(hits)])
    /\ \A i, j \in 1..Len(sent) :
         sent[i].location.portal = sent[j].location.portal
             => sent[i].portal = sent[j].portal

\* Two portals have the key p1; both notifications for that key carry the
\* first of them, and the second portal differs from it.
C17_Witness ==
    /\ Len(sent) = 3
    /\ Cardinality(PortalsWithKey("p1")) = 2
    /\ Value(res).portals[1] # Value(res).portals[2]
    /\ sent[2].location.portal = "p1" /\ sent[3].location.portal = "p1"
    /\ sent[2].portal = Some(Value(res).portals[1])
    /\ sent[3].portal = Some(Value(res).portals[1])

BothCredentialsSet == IsSome(env.LETTRE_EMAIL) /\ IsSome(env.LETTRE_PASSWORD)

StartupSteps == {"dotenv", "new", "interval"}

\* C18: startup runs in order: .env is loaded, then both credentials are
\* read, then the mail client is built, then the timer is made and the loop
\* starts; a startup step that fails ends the process with no client kept,
\* no timer, no fetch and no send; and a failure to load .env does so
\* whatever the environment holds.
C18_StartupOrdered ==
    [][/\ pc = "dotenv" => pc' \in {"new", "failed"}
       /\ pc' = "new" => (pc = "dotenv" /\ err' = "none" /\ client' = None)
       /\ pc' = "interval" =>
            (pc = "new" /\ BothCredentialsSet /\ client = None /\ client' # None)
       /\ (pc' = "tick" /\ pc \in StartupSteps) =>
            (pc = "interval" /\ client # None /\ interval' # None /\ cycle' = 0)
       /\ pc' \in {"fetch", "text", "decode", "for"} => pc \notin StartupSteps
       /\ (pc' = "failed" /\ pc \in StartupSteps) =>
            /\ client' = None /\ interval' = None /\ cycle' = 0
            /\ httpRes' = Unset /\ sent' = << >>
       /\ err' = "dotenv::Error" =>
            /\ pc = "dotenv" /\ pc' = "failed"
            /\ client' = None /\ interval' = None /\ cycle' = 0
            /\ httpRes' = Unset /\ sent' = << >>]_vars

\* Both credentials were set in the environment, no .env file was found,
\* and main has returned the dotenv error.
C18_Witness ==
    /\ pc = "failed" /\ err = "dotenv::Error"
    /\ BothCredentialsSet
    /\ client = None /\ cycle = 0

============================================================================
